---- MODULE Spec2Model ----
(***************************************************************************)
(* linksaver: the link store (cmd/linksaver/db/db.go) and the web handlers *)
(* that feed it (package web).                                             *)
(*                                                                         *)
(* Strings that are searched are sequences of words, so that the full-text *)
(* index can tokenise them.  Host names are sequences of characters, so    *)
(* that case folding and prefix/suffix tests are computed, not assumed.    *)
(* IP addresses are sequences of bytes (4 or 16).                          *)
(***************************************************************************)
EXTENDS Integers, Sequences, FiniteSets, TLC

VARIABLES
    links,      \* table links: id -> [url, title, description, added_at]
    fts,        \* table links_fts: rowid -> [title, description, body]
    clock,      \* wall clock, in milliseconds
    issued,     \* the ids AddLink has returned so far
    resp,       \* the response of the operation that completed last
    pc,         \* per client: its position inside the request it is running
    loc,        \* per client: the local variables of that request
    writer,     \* the client whose transaction holds SQLite's write lock
    page,       \* the document the shared browser session shows
    shots,      \* the file names present in the screenshots directory
    forTesting,     \* Handlers.forTesting
    browserContext  \* whether Handlers.browserContext is set (CHROMEDP given)

vars == <<links, fts, clock, issued, resp, pc, loc, writer, page, shots, forTesting,
          browserContext>>

-----------------------------------------------------------------------------
(* Bounds of the model *)

MaxId == 3          \* no insert is started once rowid MaxId is in use
MaxSec == 1         \* the clock stops at second MaxSec
MaxMs == 1          \* milliseconds the clock may advance inside one second

(* Program constants *)

MsPerSecond == 1000

-----------------------------------------------------------------------------
(* Values *)

None == "none"
OK == "ok"
ErrDuplicate == "duplicate"
ErrNotFound == "not found"

\* The browser before any navigation: about:blank
NoPage == [err |-> FALSE, scheme |-> "about", host |-> [kind |-> "name", ip |-> <<>>, name |-> <<>>], path |-> "blank"]
NoScreenshot == <<>>

Range(s) == {s[i] : i \in DOMAIN s}

SetMax(S) == CHOOSE x \in S : \A y \in S : y <= x

Titles == {<<"alpha">>, <<"beta">>}
Descriptions == {<<>>, <<"gamma">>}
Words == {"alpha", "beta", "gamma", "delta"}

\* The documents submitted: title, description, body.
Document(t, d, b) == [title |-> t, description |-> d, body |-> b]
Documents ==
    {Document(<<"alpha">>, <<>>, <<"delta">>),
     Document(<<"beta">>, <<"gamma">>, <<>>),
     Document(<<"alpha">>, <<"gamma">>, <<>>)}

StoreURLs == {<<"https", "a.test", "/x">>, <<"https", "b.test", "/">>}

Ids == 1..MaxId

-----------------------------------------------------------------------------
(* The schema and the statements of db.go *)

\* CURRENT_TIMESTAMP has a resolution of one second.
CurrentTimestamp == clock \div MsPerSecond

\* id INTEGER PRIMARY KEY, no AUTOINCREMENT: the rowid of a new row is one
\* more than the largest rowid in the table at that moment.
NewRowidLowestFree(l) == CHOOSE i \in 1..(MaxId + 1) : i \notin DOMAIN l /\ \A j \in 1..(i - 1) : j \in DOMAIN l
NewRowid(l) == IF DOMAIN l = {} THEN 1 ELSE SetMax(DOMAIN l) + 1

\* url TEXT NOT NULL UNIQUE
NoUniqueConstraint(l, url) == FALSE
UniqueViolation(l, url) == \E i \in DOMAIN l : l[i].url = url

\* INSERT INTO links (url, title, description) VALUES (?, ?, ?)
InsertLinksSwapped(l, id, url, title, description, at) ==
    [i \in DOMAIN l \cup {id} |->
        IF i = id
        THEN [url |-> url, title |-> description, description |-> title, added_at |-> at]
        ELSE l[i]]
InsertLinks(l, id, url, title, description, at) ==
    [i \in DOMAIN l \cup {id} |->
        IF i = id
        THEN [url |-> url, title |-> title, description |-> description, added_at |-> at]
        ELSE l[i]]

\* INSERT INTO links_fts(rowid, title, description, body) VALUES (?, ?, ?, ?)
InsertFts(f, id, title, description, body) ==
    [i \in DOMAIN f \cup {id} |->
        IF i = id
        THEN [title |-> title, description |-> description, body |-> body]
        ELSE f[i]]

\* CREATE TRIGGER links_ad AFTER DELETE ON links:
\*   DELETE FROM links_fts WHERE ROWID=old.id
TriggerMissing(f, id) == f
links_ad(f, id) == [i \in DOMAIN f \ {id} |-> f[i]]

\* DELETE FROM links WHERE id = ?
DeleteFromLinks(l, id) == [i \in DOMAIN l \ {id} |-> l[i]]

\* UPDATE links SET title = ? WHERE id = ?
UpdateWithoutWhere(l, id, title) == [i \in DOMAIN l |-> [l[i] EXCEPT !.title = title]]
UpdateLinksSet(l, id, title) == [l EXCEPT ![id].title = title]

\* The row a SELECT id, url, title, description, added_at scans into a Link.
LinkOf(l, id) ==
    [ID |-> id, URL |-> l[id].url, Title |-> l[id].title,
     Description |-> l[id].description, AddedAt |-> l[id].added_at]

\* links_fts MATCH ?, for a query of one token: the rows one of whose
\* columns holds the token.
Matches(f, q) ==
    {i \in DOMAIN f : q \in Range(f[i].title) \cup Range(f[i].description) \cup Range(f[i].body)}

\* Search: FROM links_fts f INNER JOIN links l ON l.id=f.rowid WHERE links_fts MATCH ?
\* (the order by rank is not modelled: the result is the set of rows).
Search(l, f, q) == {LinkOf(l, i) : i \in Matches(f, q) \cap DOMAIN l}

\* ORDER BY added_at DESC: rows with equal added_at come in an order SQL
\* leaves unspecified.
Unordered(l, s) == TRUE
OrderByAddedAtDesc(l, s) ==
    \A i, j \in DOMAIN s : i < j => l[s[i]].added_at >= l[s[j]].added_at

Orderings(S) ==
    {s \in [1..Cardinality(S) -> S] : \A i, j \in DOMAIN s : i # j => s[i] # s[j]}

\* GetAllLinks: every sequence of ids the SELECT may return.
GetAllLinks(l) == {s \in Orderings(DOMAIN l) : OrderByAddedAtDesc(l, s)}

\* GetLink: the row, or ErrNotFound.
GetLink(l, id) == IF id \in DOMAIN l THEN LinkOf(l, id) ELSE ErrNotFound

-----------------------------------------------------------------------------
Clients == {"c1", "c2"}

Response(op, arg, err, val) == [op |-> op, arg |-> arg, err |-> err, val |-> val]

Init ==
    /\ links = <<>>
    /\ fts = <<>>
    /\ clock = 0
    /\ issued = {}
    /\ resp = Response(None, None, None, None)
    /\ pc = [c \in Clients |-> "idle"]
    /\ loc = [c \in Clients |-> <<>>]
    /\ writer = None
    /\ page = NoPage
    /\ shots = {}
    /\ forTesting = FALSE
    /\ browserContext = FALSE

webVars == <<pc, loc, writer, page, shots, forTesting, browserContext>>

-----------------------------------------------------------------------------
(* The store, one call at a time *)

\* AddLink's result for a url: the error, and the id returned.
AddLinkErr(url) == IF UniqueViolation(links, url) THEN ErrDuplicate ELSE OK
AddLinkId(url) == IF UniqueViolation(links, url) THEN 0 ELSE NewRowid(links)

\* AddLink's transaction: BEGIN; INSERT INTO links; INSERT INTO links_fts;
\* COMMIT, or nothing at all when the first INSERT fails.
AddLinkTx(url, title, description, body) ==
    IF UniqueViolation(links, url)
    THEN UNCHANGED <<links, fts, issued>>
    ELSE /\ links' = InsertLinks(links, NewRowid(links), url, title, description,
                                 CurrentTimestamp)
         /\ fts' = InsertFts(fts, NewRowid(links), title, description, body)
         /\ issued' = issued \cup {NewRowid(links)}

\* AddLink
AddLink(url, title, description, body) ==
    /\ NewRowid(links) <= MaxId
    /\ AddLinkTx(url, title, description, body)
    /\ resp' = Response("add", url, AddLinkErr(url), AddLinkId(url))
    /\ UNCHANGED <<clock, webVars>>

\* DeleteLink: one DELETE statement; the trigger runs inside it.
DeleteLinkUnchecked(id) ==
    /\ links' = DeleteFromLinks(links, id)
    /\ fts' = links_ad(fts, id)
    /\ resp' = Response("delete", id, OK, None)
    /\ UNCHANGED <<clock, issued, webVars>>
DeleteLink(id) ==
    /\ IF id \in DOMAIN links
       THEN /\ links' = DeleteFromLinks(links, id)
            /\ fts' = links_ad(fts, id)
            /\ resp' = Response("delete", id, OK, None)
       ELSE /\ resp' = Response("delete", id, ErrNotFound, None)
            /\ UNCHANGED <<links, fts>>
    /\ UNCHANGED <<clock, issued, webVars>>

\* UpdateLink, as EditLink and the store's test call it (id, title,
\* description): the statement db.go runs sets the title of the links row.
UpdateLink(id, title, description) ==
    /\ IF id \in DOMAIN links
       THEN /\ links' = UpdateLinksSet(links, id, title)
            /\ resp' = Response("update", id, OK, <<title, description>>)
       ELSE /\ resp' = Response("update", id, ErrNotFound, <<title, description>>)
            /\ UNCHANGED links
    /\ UNCHANGED <<fts, clock, issued, webVars>>

\* The clock reaches the next second.
TickSec ==
    /\ CurrentTimestamp < MaxSec
    /\ clock' = (CurrentTimestamp + 1) * MsPerSecond
    /\ UNCHANGED <<links, fts, issued, resp, webVars>>

Next ==
    \/ \E u \in StoreURLs, doc \in Documents :
            AddLink(u, doc.title, doc.description, doc.body)
    \/ \E id \in Ids : DeleteLink(id)
    \/ \E id \in Ids, t \in Titles, d \in Descriptions : UpdateLink(id, t, d)
    \/ TickSec

Spec == Init /\ [][Next]_vars

-----------------------------------------------------------------------------
(* The store under concurrent clients.  AddLink is a transaction of three  *)
(* statements: what it has written is private to its connection until      *)
(* COMMIT, and SQLite lets one transaction write at a time (a second       *)
(* writer waits for the lock).  DeleteLink and UpdateLink are single       *)
(* statements, each its own transaction.                                   *)

InFlight == {c \in Clients : pc[c] # "idle"}

\* db.Begin()
TxBegin(c, url, title, description, body) ==
    /\ pc[c] = "idle"
    /\ NewRowid(links) + Cardinality(InFlight) <= MaxId
    /\ pc' = [pc EXCEPT ![c] = "insert"]
    /\ loc' = [loc EXCEPT ![c] =
                  [url |-> url, title |-> title, description |-> description, body |-> body]]
    /\ UNCHANGED <<links, fts, clock, issued, resp, writer, page, shots, forTesting, browserContext>>

\* tx.Exec("INSERT INTO links ...") and the error branch that follows it
TxInsertLinksNoLock(c) ==
    /\ pc[c] = "insert"
    /\ IF UniqueViolation(links, loc[c].url)
       THEN /\ resp' = Response("add", loc[c].url, ErrDuplicate, 0)
            /\ pc' = [pc EXCEPT ![c] = "idle"]
            /\ loc' = [loc EXCEPT ![c] = <<>>]
            /\ UNCHANGED writer
       ELSE /\ writer' = c
            /\ pc' = [pc EXCEPT ![c] = "insertfts"]
            /\ loc' = [loc EXCEPT ![c] =
                          [url |-> loc[c].url, title |-> loc[c].title,
                           description |-> loc[c].description, body |-> loc[c].body,
                           id |-> NewRowid(links), at |-> CurrentTimestamp]]
            /\ UNCHANGED resp
    /\ UNCHANGED <<links, fts, clock, issued, page, shots, forTesting, browserContext>>
TxInsertLinks(c) ==
    /\ pc[c] = "insert"
    /\ writer = None
    /\ IF UniqueViolation(links, loc[c].url)
       THEN /\ resp' = Response("add", loc[c].url, ErrDuplicate, 0)
            /\ pc' = [pc EXCEPT ![c] = "idle"]
            /\ loc' = [loc EXCEPT ![c] = <<>>]
            /\ UNCHANGED writer
       ELSE /\ writer' = c
            /\ pc' = [pc EXCEPT ![c] = "insertfts"]
            /\ loc' = [loc EXCEPT ![c] =
                          [url |-> loc[c].url, title |-> loc[c].title,
                           description |-> loc[c].description, body |-> loc[c].body,
                           id |-> NewRowid(links), at |-> CurrentTimestamp]]
            /\ UNCHANGED resp
    /\ UNCHANGED <<links, fts, clock, issued, page, shots, forTesting, browserContext>>

\* tx.Exec("INSERT INTO links_fts ...")
TxInsertFts(c) ==
    /\ pc[c] = "insertfts"
    /\ pc' = [pc EXCEPT ![c] = "commit"]
    /\ UNCHANGED <<links, fts, clock, issued, resp, loc, writer, page, shots, forTesting, browserContext>>

\* tx.Commit(); return id, nil
TxCommit(c) ==
    /\ pc[c] = "commit"
    /\ links' = InsertLinks(links, loc[c].id, loc[c].url, loc[c].title,
                            loc[c].description, loc[c].at)
    /\ fts' = InsertFts(fts, loc[c].id, loc[c].title, loc[c].description, loc[c].body)
    /\ issued' = issued \cup {loc[c].id}
    /\ resp' = Response("add", loc[c].url, OK, loc[c].id)
    /\ writer' = None
    /\ pc' = [pc EXCEPT ![c] = "idle"]
    /\ loc' = [loc EXCEPT ![c] = <<>>]
    /\ UNCHANGED <<clock, page, shots, forTesting, browserContext>>

TxDelete(c, id) == pc[c] = "idle" /\ writer = None /\ DeleteLink(id)

TxUpdate(c, id, title, description) ==
    pc[c] = "idle" /\ writer = None /\ UpdateLink(id, title, description)

TxDocuments == {doc \in Documents : doc.description # <<>>}

NextTx ==
    \/ \E c \in Clients, u \in StoreURLs, doc \in TxDocuments :
            TxBegin(c, u, doc.title, doc.description, doc.body)
    \/ \E c \in Clients : TxInsertLinks(c)
    \/ \E c \in Clients : TxInsertFts(c)
    \/ \E c \in Clients : TxCommit(c)
    \/ \E c \in Clients, id \in Ids : TxDelete(c, id)
    \/ \E c \in Clients, id \in Ids, t \in Titles : TxUpdate(c, id, t, <<>>)
    \/ TickSec

SpecTx == Init /\ [][NextTx]_vars

-----------------------------------------------------------------------------
(* The URL guard of package web *)

maxTitleLength == 250
maxDescriptionLength == 1020

\* IP addresses, as net.IP holds them: 4 or 16 bytes.
IPv4(a, b, c, d) == <<a, b, c, d>>
IPv6loopback == [i \in 1..16 |-> IF i = 16 THEN 1 ELSE 0]

\* A nil net.IP
NoIP == <<>>

\* net.IP.To4: the 4-byte form of an IPv4 or IPv4-mapped address, else nil.
To4(ip) ==
    IF Len(ip) = 4 THEN ip
    ELSE IF /\ Len(ip) = 16
            /\ \A i \in 1..10 : ip[i] = 0
            /\ ip[11] = 255 /\ ip[12] = 255
         THEN SubSeq(ip, 13, 16)
         ELSE NoIP

\* net.IP.IsLoopback
IsLoopback(ip) ==
    IF To4(ip) # NoIP THEN To4(ip)[1] = 127 ELSE ip = IPv6loopback

\* net.IP.IsPrivate: 10/8, 172.16/12, 192.168/16, fc00::/7
IsPrivate(ip) ==
    IF To4(ip) # NoIP
    THEN \/ To4(ip)[1] = 10
         \/ To4(ip)[1] = 172 /\ To4(ip)[2] \in 16..31
         \/ To4(ip)[1] = 192 /\ To4(ip)[2] = 168
    ELSE Len(ip) = 16 /\ ip[1] \in {252, 253}

\* net.IP.IsUnspecified: 0.0.0.0 or ::
IsUnspecified(ip) == ip # NoIP /\ \A i \in DOMAIN ip : ip[i] = 0

\* A host is text: an IP literal (net.ParseIP gives its bytes) or a name.
IPHost(ip) == [kind |-> "ip", ip |-> ip, name |-> <<>>]
NameHost(chars) == [kind |-> "name", ip |-> <<>>, name |-> chars]
ParseIP(host) == IF host.kind = "ip" THEN host.ip ELSE NoIP

Upper == <<"A", "B", "C", "D", "E", "F", "G", "H", "I", "J", "K", "L", "M",
           "N", "O", "P", "Q", "R", "S", "T", "U", "V", "W", "X", "Y", "Z">>
Lower == <<"a", "b", "c", "d", "e", "f", "g", "h", "i", "j", "k", "l", "m",
           "n", "o", "p", "q", "r", "s", "t", "u", "v", "w", "x", "y", "z">>

\* strings.ToLower, strings.HasPrefix, strings.HasSuffix
ToLower(str) ==
    [i \in DOMAIN str |->
        IF \E k \in DOMAIN Upper : Upper[k] = str[i]
        THEN Lower[CHOOSE k \in DOMAIN Upper : Upper[k] = str[i]]
        ELSE str[i]]
HasPrefix(str, pre) == Len(str) >= Len(pre) /\ SubSeq(str, 1, Len(pre)) = pre
HasSuffix(str, suf) ==
    Len(str) >= Len(suf) /\ SubSeq(str, Len(str) - Len(suf) + 1, Len(str)) = suf

localhost == <<"l", "o", "c", "a", "l", "h", "o", "s", "t">>
dotLocalhost == <<".">> \o localhost

\* What net.DefaultResolver.LookupIPAddr may give within its 5 s: an error
\* (a failure or the time-out), or the addresses of the name.
DNSFail == [err |-> TRUE, ips |-> {}]
DNSAnswer(ips) == [err |-> FALSE, ips |-> ips]
DNSOutcomes ==
    {DNSFail,
     DNSAnswer({IPv4(93, 184, 216, 34)}),
     DNSAnswer({IPv4(192, 168, 0, 7)}),
     DNSAnswer({IPv4(93, 184, 216, 34), IPv4(127, 0, 0, 1)}),
     DNSAnswer({IPv4(0, 0, 0, 0)})}

\* isPrivateOrLocalhost, given what the lookup would answer.
GuardSkipsLiterals(host, dns, testing) ==
    IF testing THEN FALSE
    ELSE IF ParseIP(host) # NoIP THEN FALSE
    ELSE IF \/ host.name = <<>>
            \/ HasPrefix(ToLower(host.name), localhost)
            \/ HasSuffix(ToLower(host.name), dotLocalhost)
         THEN TRUE
    ELSE IF dns.err THEN TRUE
    ELSE \E ip \in dns.ips : IsLoopback(ip) \/ IsPrivate(ip) \/ IsUnspecified(ip)
GuardFailsOpen(host, dns, testing) ==
    IF testing THEN FALSE
    ELSE IF ParseIP(host) # NoIP
         THEN IsLoopback(ParseIP(host)) \/ IsPrivate(ParseIP(host)) \/ IsUnspecified(ParseIP(host))
    ELSE IF \/ host.name = <<>>
            \/ HasPrefix(ToLower(host.name), localhost)
            \/ HasSuffix(ToLower(host.name), dotLocalhost)
         THEN TRUE
    ELSE IF dns.err THEN FALSE
    ELSE \E ip \in dns.ips : IsLoopback(ip) \/ IsPrivate(ip) \/ IsUnspecified(ip)
GuardIgnoresFlag(host, dns, testing) ==
    IF ParseIP(host) # NoIP
    THEN IsLoopback(ParseIP(host)) \/ IsPrivate(ParseIP(host)) \/ IsUnspecified(ParseIP(host))
    ELSE IF \/ host.name = <<>>
            \/ HasPrefix(ToLower(host.name), localhost)
            \/ HasSuffix(ToLower(host.name), dotLocalhost)
         THEN TRUE
    ELSE IF testing THEN FALSE
    ELSE IF dns.err THEN TRUE
    ELSE \E ip \in dns.ips : IsLoopback(ip) \/ IsPrivate(ip) \/ IsUnspecified(ip)
isPrivateOrLocalhost(host, dns, testing) ==
    IF testing THEN FALSE
    ELSE IF ParseIP(host) # NoIP
         THEN IsLoopback(ParseIP(host)) \/ IsPrivate(ParseIP(host)) \/ IsUnspecified(ParseIP(host))
    ELSE IF \/ host.name = <<>>
            \/ HasPrefix(ToLower(host.name), localhost)
            \/ HasSuffix(ToLower(host.name), dotLocalhost)
         THEN TRUE
    ELSE IF dns.err THEN TRUE
    ELSE \E ip \in dns.ips : IsLoopback(ip) \/ IsPrivate(ip) \/ IsUnspecified(ip)

-----------------------------------------------------------------------------
(* URL and note submissions *)

\* What url.Parse makes of the form's url: an error, or scheme, host name
\* (Hostname()) and path.
ParsedURL(scheme, host, path) == [err |-> FALSE, scheme |-> scheme, host |-> host, path |-> path]
ParseError == [err |-> TRUE, scheme |-> "", host |-> NameHost(<<>>), path |-> ""]

\* url.String(), the key the link is stored under.
URLString(u) == <<u.scheme, u.host, u.path>>

HostA == NameHost(<<"a", ".", "t", "e", "s", "t">>)
HostPublic == IPHost(IPv4(93, 184, 216, 34))
HostLinkLocal == IPHost(IPv4(169, 254, 169, 254))

Hosts ==
    {HostA, HostPublic, HostLinkLocal,
     IPHost(IPv4(127, 0, 0, 1)), IPHost(IPv4(10, 0, 0, 1)), IPHost(IPv4(172, 16, 0, 1)),
     IPHost(IPv4(0, 0, 0, 0)), IPHost(IPv6loopback),
     NameHost(localhost),
     NameHost(<<"L", "o", "c", "a", "l", "H", "o", "s", "t">>),
     NameHost(<<"a">> \o dotLocalhost),
     NameHost(<<>>)}

Candidates ==
    {ParsedURL("https", h, "/") : h \in Hosts \ {HostLinkLocal}}
        \cup {ParsedURL("http", HostLinkLocal, "/"), ParsedURL("ftp", HostA, "/"), ParseError}

\* The document a host serves: title, description, body.
Site(host) ==
    IF host = HostA THEN Document(<<"alpha">>, <<>>, <<"delta">>)
    ELSE IF host = HostPublic THEN Document(<<>>, <<"gamma">>, <<>>)
    ELSE Document(<<"beta">>, <<"gamma">>, <<>>)

\* len(): the characters of a text, its words joined by single spaces.
WordLen(w) ==
    CASE w = "long251" -> 251
      [] w = " " -> 1
      [] w = "long1021" -> 1021
      [] OTHER -> 5
RECURSIVE CharLen(_)
CharLen(str) ==
    IF str = <<>> THEN 0
    ELSE WordLen(Head(str)) + (IF Len(str) > 1 THEN 1 ELSE 0) + CharLen(Tail(str))

\* screenshotFilename: the hex SHA-256 of the url string, ".png"
screenshotFilename(urlString) == <<"sha256", urlString, ".png">>

StatusOK == 200
StatusCreated == 201
StatusBadRequest == 400
StatusNotFound == 404
StatusConflict == 409
StatusInternalServerError == 500

\* The messages of sendError
Msg ==
    [InvalidURL |-> "Invalid URL format. Must be a valid HTTP/HTTPS URL",
     FailedToLoad |-> "Failed to load URL",
     AlreadyExists |-> "URL already exists",
     FailedToSaveScreenshot |-> "Failed to save screenshot",
     NoteTitleRequired |-> "Note title is required",
     NoteTitleTooLong |-> "Note title is too long",
     NoteTextRequired |-> "Note text is required",
     NoteTextTooLong |-> "Note text is too long",
     FailedToAddNote |-> "Failed to add note",
     InvalidID |-> "Invalid ID",
     TitleRequired |-> "title is required",
     TitleTooLong |-> "title is too long",
     DescriptionTooLong |-> "description is too long",
     NotFound |-> "Not Found"]
NoMsg == ""

\* What the handler sent for a request: the message of its sendError call,
\* the statuses of its sendError / listLinks calls in order, and the error
\* the store returned (None when it was not called).
Reply(c, req, msg, statuses, dbErr) == Response("AddItem", <<c, req, msg>>, dbErr, statuses)

Finish(c) ==
    /\ pc' = [pc EXCEPT ![c] = "idle"]
    /\ loc' = [loc EXCEPT ![c] = <<>>]

\* isPrivateOrLocalhost tabulated: the hosts, lookups and modes it answers
\* true for.
Guarded ==
    UNION {IF isPrivateOrLocalhost(x[1], x[2], x[3]) THEN {x} ELSE {}
              : x \in Hosts \X DNSOutcomes \X BOOLEAN}

\* AddItem with a url in the form: parse, check the scheme, ask the guard.
AddItemURL(c, u, dns) ==
    /\ pc[c] = "idle"
    /\ NewRowid(links) + Cardinality(InFlight) <= MaxId
    /\ IF u.err \/ (u.scheme # "http" /\ u.scheme # "https")
            \/ <<u.host, dns, forTesting>> \in Guarded
       THEN /\ resp' = Reply(c, u, Msg.InvalidURL, <<StatusBadRequest>>, None)
            /\ UNCHANGED <<pc, loc>>
       ELSE /\ pc' = [pc EXCEPT ![c] = IF browserContext THEN "navigate" ELSE "fetch"]
            /\ loc' = [loc EXCEPT ![c] = [url |-> u]]
            /\ UNCHANGED resp
    /\ UNCHANGED <<links, fts, clock, issued, writer, page, shots, forTesting, browserContext>>

\* addLink without a browser: extractTitleAndDescriptionAndBodyFromURL.
\* The GET fails, or answers another status than 200, or answers the
\* document of the host, whose title must not be empty.
FetchIgnoringStatus(c, outcome) ==
    /\ pc[c] = "fetch"
    /\ pc' = [pc EXCEPT ![c] = "store"]
    /\ loc' = [loc EXCEPT ![c] =
                  [url |-> loc[c].url, title |-> Site(loc[c].url.host).title,
                   description |-> Site(loc[c].url.host).description,
                   body |-> Site(loc[c].url.host).body, screenshot |-> NoScreenshot]]
    /\ UNCHANGED <<resp, links, fts, clock, issued, writer, page, shots, forTesting,
                   browserContext>>
Fetch(c, outcome) ==
    /\ pc[c] = "fetch"
    /\ IF outcome # "200" \/ Site(loc[c].url.host).title = <<>>
       THEN /\ resp' = Reply(c, loc[c].url, Msg.FailedToLoad, <<StatusBadRequest>>, None)
            /\ Finish(c)
       ELSE /\ pc' = [pc EXCEPT ![c] = "store"]
            /\ loc' = [loc EXCEPT ![c] =
                          [url |-> loc[c].url,
                           title |-> Site(loc[c].url.host).title,
                           description |-> Site(loc[c].url.host).description,
                           body |-> Site(loc[c].url.host).body,
                           screenshot |-> NoScreenshot]]
            /\ UNCHANGED resp
    /\ UNCHANGED <<links, fts, clock, issued, writer, page, shots, forTesting, browserContext>>

\* addLink with a browser: chromedp.RunResponse(Navigate(url)) on the one
\* shared browser context.
Navigate(c, outcome) ==
    /\ pc[c] = "navigate"
    /\ IF outcome # "200"
       THEN /\ resp' = Reply(c, loc[c].url, Msg.FailedToLoad, <<StatusBadRequest>>, None)
            /\ Finish(c)
            /\ IF outcome = "error" THEN UNCHANGED page ELSE page' = loc[c].url
       ELSE /\ page' = loc[c].url
            /\ pc' = [pc EXCEPT ![c] = "title"]
            /\ UNCHANGED <<loc, resp>>
    /\ UNCHANGED <<links, fts, clock, issued, writer, shots, forTesting, browserContext>>

\* chromedp.Run(Title(&title)): the title of the page the browser shows.
BrowserTitle(c) ==
    /\ pc[c] = "title"
    /\ pc' = [pc EXCEPT ![c] = "description"]
    /\ loc' = [loc EXCEPT ![c] = [url |-> loc[c].url, title |-> Site(page.host).title]]
    /\ UNCHANGED <<links, fts, clock, issued, resp, writer, page, shots, forTesting,
                   browserContext>>

\* chromedp.Run(Evaluate(... meta[name='description'] ...))
BrowserDescription(c) ==
    /\ pc[c] = "description"
    /\ pc' = [pc EXCEPT ![c] = "body"]
    /\ loc' = [loc EXCEPT ![c] =
                  [url |-> loc[c].url, title |-> loc[c].title,
                   description |-> Site(page.host).description]]
    /\ UNCHANGED <<links, fts, clock, issued, resp, writer, page, shots, forTesting,
                   browserContext>>

\* chromedp.Run(JavascriptAttribute(`body`, "outerHTML", &body))
BrowserBody(c) ==
    /\ pc[c] = "body"
    /\ pc' = [pc EXCEPT ![c] = "screenshot"]
    /\ loc' = [loc EXCEPT ![c] =
                  [url |-> loc[c].url, title |-> loc[c].title,
                   description |-> loc[c].description, body |-> Site(page.host).body]]
    /\ UNCHANGED <<links, fts, clock, issued, resp, writer, page, shots, forTesting,
                   browserContext>>

\* chromedp.Run(EmulateViewport, CaptureScreenshot), then the check of the
\* title: the image shows the page the browser is on.
BrowserScreenshot(c, captured) ==
    /\ pc[c] = "screenshot"
    /\ IF ~captured \/ loc[c].title = <<>>
       THEN /\ resp' = Reply(c, loc[c].url, Msg.FailedToLoad, <<StatusBadRequest>>, None)
            /\ Finish(c)
       ELSE /\ pc' = [pc EXCEPT ![c] = "store"]
            /\ loc' = [loc EXCEPT ![c] =
                          [url |-> loc[c].url, title |-> loc[c].title,
                           description |-> loc[c].description, body |-> loc[c].body,
                           screenshot |-> <<"png", page>>]]
            /\ UNCHANGED resp
    /\ UNCHANGED <<links, fts, clock, issued, writer, page, shots, forTesting, browserContext>>

\* addLink from database.AddLink on: the store's answer, the screenshot
\* file (os.WriteFile succeeds or fails), the reply.
StoreLink(c, written) ==
    /\ pc[c] = "store"
    /\ AddLinkTx(URLString(loc[c].url), loc[c].title, loc[c].description, loc[c].body)
    /\ IF AddLinkErr(URLString(loc[c].url)) = ErrDuplicate
       THEN /\ resp' = Reply(c, loc[c].url, Msg.AlreadyExists, <<StatusConflict>>, ErrDuplicate)
            /\ UNCHANGED shots
       ELSE IF loc[c].screenshot = NoScreenshot
       THEN /\ resp' = Reply(c, loc[c].url, NoMsg, <<StatusCreated>>, OK)
            /\ UNCHANGED shots
       ELSE IF written
       THEN /\ shots' = shots \cup {screenshotFilename(URLString(loc[c].url))}
            /\ resp' = Reply(c, loc[c].url, NoMsg, <<StatusCreated>>, OK)
       ELSE /\ resp' = Reply(c, loc[c].url, Msg.FailedToSaveScreenshot, <<StatusInternalServerError, StatusCreated>>, OK)
            /\ UNCHANGED shots
    /\ Finish(c)
    /\ UNCHANGED <<clock, writer, page, forTesting, browserContext>>

\* AddItem without a url: the note's title and text are checked, then
\* addNote stores it under the pseudo-url note:<UnixMilli>.
NoteURL == <<"note", clock>>

\* A form without a url
NoteForm == [err |-> FALSE, scheme |-> "", host |-> [kind |-> "name", ip |-> <<>>, name |-> <<>>], path |-> "note"]

\* strings.TrimSpace of a text of words; the word " " is a blank
RECURSIVE TrimWords(_)
TrimWords(str) ==
    IF str # <<>> /\ Head(str) = " " THEN TrimWords(Tail(str))
    ELSE IF str # <<>> /\ str[Len(str)] = " " THEN TrimWords(SubSeq(str, 1, Len(str) - 1))
    ELSE str

\* The checks of the note's fields, in the order AddItem makes them
NoteError(title, note) ==
    IF title = <<>> THEN Msg.NoteTitleRequired
    ELSE IF CharLen(title) > maxTitleLength THEN Msg.NoteTitleTooLong
    ELSE IF note = <<>> THEN Msg.NoteTextRequired
    ELSE IF CharLen(note) > maxDescriptionLength THEN Msg.NoteTextTooLong
    ELSE NoMsg

AddItemNote(c, title, note) ==
    /\ pc[c] = "idle"
    /\ NewRowid(links) + Cardinality(InFlight) <= MaxId
    /\ IF NoteError(TrimWords(title), TrimWords(note)) # NoMsg
       THEN /\ resp' = Reply(c, NoteForm, NoteError(TrimWords(title), TrimWords(note)),
                             <<StatusBadRequest>>, None)
            /\ UNCHANGED <<links, fts, issued>>
       ELSE /\ AddLinkTx(NoteURL, TrimWords(title), TrimWords(note), TrimWords(note))
            /\ resp' = IF AddLinkErr(NoteURL) = OK
                       THEN Reply(c, NoteForm, NoMsg, <<StatusCreated>>, OK)
                       ELSE Reply(c, NoteForm, Msg.FailedToAddNote,
                                  <<StatusInternalServerError>>, AddLinkErr(NoteURL))
    /\ UNCHANGED <<clock, pc, loc, writer, page, shots, forTesting, browserContext>>

\* What EditLink sent: the id of the path, the message of sendError, the
\* status, and the error the store returned (None when it was not called).
EditReply(c, idStr, msg, status, dbErr) ==
    Response("EditLink", <<c, idStr, msg>>, dbErr, <<status>>)

\* The checks of EditLink's path and form, in the order it makes them
EditError(idStr, title, description) ==
    IF ~idStr.ok THEN Msg.InvalidID
    ELSE IF title = <<>> THEN Msg.TitleRequired
    ELSE IF CharLen(title) > maxTitleLength THEN Msg.TitleTooLong
    ELSE IF CharLen(description) > maxDescriptionLength THEN Msg.DescriptionTooLong
    ELSE NoMsg

\* EditLink: PATCH /{id} with title and description; database.UpdateLink,
\* then getLink renders the row.
EditLinkWritesFirst(c, idStr, title, description) ==
    /\ pc[c] = "idle"
    /\ idStr.id \in DOMAIN links
    /\ links' = UpdateLinksSet(links, idStr.id, title)
    /\ resp' = EditReply(c, idStr, EditError(idStr, title, description),
                         IF EditError(idStr, title, description) # NoMsg
                         THEN StatusBadRequest ELSE StatusOK, None)
    /\ UNCHANGED <<fts, clock, issued, webVars>>
EditLink(c, idStr, title, description) ==
    /\ pc[c] = "idle"
    /\ IF EditError(idStr, title, description) # NoMsg
       THEN /\ resp' = EditReply(c, idStr, EditError(idStr, title, description),
                                 StatusBadRequest, None)
            /\ UNCHANGED links
       ELSE IF idStr.id \notin DOMAIN links
       THEN /\ resp' = EditReply(c, idStr, Msg.NotFound, StatusNotFound, ErrNotFound)
            /\ UNCHANGED links
       ELSE /\ links' = UpdateLinksSet(links, idStr.id, title)
            /\ resp' = EditReply(c, idStr, NoMsg, StatusOK, OK)
    /\ UNCHANGED <<fts, clock, issued, webVars>>

\* The clock reaches the next millisecond.
TickMs ==
    /\ clock % MsPerSecond < MaxMs
    /\ clock' = clock + 1
    /\ UNCHANGED <<links, fts, issued, resp, webVars>>

NoteTitles == {<<>>, <<" ">>, <<" ", "alpha", " ">>, <<"long251">>}
NoteTexts == {<<>>, <<"gamma">>, <<"long1021">>}
Outcomes == {"error", "404", "200"}

\* NewHandlers: forTesting is false; the browser is there when CHROMEDP is set.
InitWeb ==
    /\ links = <<>>
    /\ fts = <<>>
    /\ clock = 0
    /\ issued = {}
    /\ resp = Response(None, None, None, None)
    /\ pc = [c \in Clients |-> "idle"]
    /\ loc = [c \in Clients |-> <<>>]
    /\ writer = None
    /\ page = NoPage
    /\ shots = {}
    /\ forTesting = FALSE
    /\ browserContext \in BOOLEAN

\* Submissions handled one at a time.
Submitter == "c1"

\* isPrivateOrLocalhost looks a host up only when the URL parsed, its scheme
\* is http or https and the host is a name that is not a local one; for
\* every other URL what a lookup would answer plays no part.
Submissions ==
    LET Lookups(u) ==
            IF /\ ~u.err /\ u.scheme \in {"http", "https"}
               /\ ParseIP(u.host) = NoIP /\ u.host.name # <<>>
               /\ ~HasPrefix(ToLower(u.host.name), localhost)
               /\ ~HasSuffix(ToLower(u.host.name), dotLocalhost)
            THEN DNSOutcomes
            ELSE {DNSFail}
    IN  UNION {{<<u, dns>> : dns \in Lookups(u)} : u \in Candidates}

NextWeb ==
    \/ \E s \in Submissions : AddItemURL(Submitter, s[1], s[2])
    \/ \E outcome \in Outcomes : Fetch(Submitter, outcome)
    \/ \E outcome \in Outcomes : Navigate(Submitter, outcome)
    \/ BrowserTitle(Submitter)
    \/ BrowserDescription(Submitter)
    \/ BrowserBody(Submitter)
    \/ \E captured \in BOOLEAN : BrowserScreenshot(Submitter, captured)
    \/ \E written \in BOOLEAN : StoreLink(Submitter, written)
    \/ \E t \in NoteTitles, n \in NoteTexts : AddItemNote(Submitter, t, n)
    \/ TickMs

SpecWeb == InitWeb /\ [][NextWeb]_vars

\* Submissions and edits without a browser.
InitEdit ==
    /\ links = <<>>
    /\ fts = <<>>
    /\ clock = 0
    /\ issued = {}
    /\ resp = Response(None, None, None, None)
    /\ pc = [c \in Clients |-> "idle"]
    /\ loc = [c \in Clients |-> <<>>]
    /\ writer = None
    /\ page = NoPage
    /\ shots = {}
    /\ forTesting = FALSE
    /\ browserContext = FALSE

NextEdit ==
    \/ \E s \in Submissions : AddItemURL(Submitter, s[1], s[2])
    \/ \E outcome \in Outcomes : Fetch(Submitter, outcome)
    \/ \E written \in BOOLEAN : StoreLink(Submitter, written)
    \/ \E t \in NoteTitles, n \in NoteTexts : AddItemNote(Submitter, t, n)
    \/ \E i \in {[ok |-> TRUE, id |-> i] : i \in Ids} \cup {[ok |-> FALSE, id |-> 0]},
          t \in {<<>>, <<" ">>, <<"alpha">>, <<"long251">>},
          d \in {<<>>, <<"long1021">>} :
            EditLink(Submitter, i, t, d)

SpecEdit == InitEdit /\ [][NextEdit]_vars

\* Concurrent URL submissions with a browser: net/http runs each request
\* on its own goroutine, all of them on the one browser context.
InitBrowser ==
    /\ links = <<>>
    /\ fts = <<>>
    /\ clock = 0
    /\ issued = {}
    /\ resp = Response(None, None, None, None)
    /\ pc = [c \in Clients |-> "idle"]
    /\ loc = [c \in Clients |-> <<>>]
    /\ writer = None
    /\ page = NoPage
    /\ shots = {}
    /\ forTesting = FALSE
    /\ browserContext = TRUE

BrowserCandidates == {ParsedURL("https", HostA, "/"), ParsedURL("http", HostLinkLocal, "/")}

NextBrowser ==
    \/ \E c \in Clients, u \in BrowserCandidates : AddItemURL(c, u, DNSAnswer({IPv4(93, 184, 216, 34)}))
    \/ \E c \in Clients, outcome \in Outcomes : Navigate(c, outcome)
    \/ \E c \in Clients : BrowserTitle(c)
    \/ \E c \in Clients : BrowserDescription(c)
    \/ \E c \in Clients : BrowserBody(c)
    \/ \E c \in Clients, captured \in BOOLEAN : BrowserScreenshot(c, captured)
    \/ \E c \in Clients, written \in BOOLEAN : StoreLink(c, written)

SpecBrowser == InitBrowser /\ [][NextBrowser]_vars

\* The DeleteLink handler of package web: DELETE /{id}.  database.DeleteLink,
\* then os.Remove of the file <id>.png in the screenshots directory; a
\* failure of the removal is only logged.
DeleteLinkRequest(c, idStr) ==
    /\ pc[c] = "idle"
    /\ IF ~idStr.ok
       THEN /\ resp' = Response("DeleteLink", <<c, idStr, Msg.InvalidID>>, None,
                                <<StatusBadRequest>>)
            /\ UNCHANGED <<links, fts, shots>>
       ELSE IF idStr.id \notin DOMAIN links
       THEN /\ resp' = Response("DeleteLink", <<c, idStr, Msg.NotFound>>, ErrNotFound,
                                <<StatusNotFound>>)
            /\ UNCHANGED <<links, fts, shots>>
       ELSE /\ links' = DeleteFromLinks(links, idStr.id)
            /\ fts' = links_ad(fts, idStr.id)
            /\ shots' = shots \ {<<"decimal", idStr.id, ".png">>}
            /\ resp' = Response("DeleteLink", <<c, idStr, NoMsg>>, OK, <<StatusOK>>)
    /\ UNCHANGED <<clock, issued, pc, loc, writer, page, forTesting, browserContext>>

\* Submissions with a browser and deletions, one request at a time.
NextShots ==
    \/ \E u \in BrowserCandidates :
            AddItemURL(Submitter, u, DNSAnswer({IPv4(93, 184, 216, 34)}))
    \/ \E outcome \in Outcomes : Navigate(Submitter, outcome)
    \/ BrowserTitle(Submitter)
    \/ BrowserDescription(Submitter)
    \/ BrowserBody(Submitter)
    \/ \E captured \in BOOLEAN : BrowserScreenshot(Submitter, captured)
    \/ \E written \in BOOLEAN : StoreLink(Submitter, written)
    \/ \E i \in {[ok |-> TRUE, id |-> i] : i \in Ids} \cup {[ok |-> FALSE, id |-> 0]} :
            DeleteLinkRequest(Submitter, i)

SpecShots == InitBrowser /\ [][NextShots]_vars

\* The retrieval of addLink without a browser, request by request.  The
\* client of newHandlers has no CheckRedirect and no dialer of its own:
\* http.Client.Do resolves the host of each request itself, connects, and
\* follows a redirect to its Location (the library stops after 10
\* redirects, the model after MaxRedirects).
MaxRedirects == 2

\* The transport resolves the host of the request it is about to send (the
\* submitted URL, or the Location of the last redirect) and connects.
Dial(c, dns) ==
    /\ pc[c] = "fetch"
    /\ LET target == IF "target" \in DOMAIN loc[c] THEN loc[c].target ELSE loc[c].url
           hops == IF "hops" \in DOMAIN loc[c] THEN loc[c].hops ELSE 0
       IN  IF target.host.kind = "name" /\ (dns.err \/ target.host.name = <<>>)
           THEN /\ resp' = Reply(c, loc[c].url, Msg.FailedToLoad, <<StatusBadRequest>>, None)
                /\ Finish(c)
           ELSE /\ \E ip \in (IF target.host.kind = "ip" THEN {target.host.ip} ELSE dns.ips) :
                      loc' = [loc EXCEPT ![c] =
                                 [url |-> loc[c].url, target |-> target, hops |-> hops,
                                  addr |-> ip]]
                /\ pc' = [pc EXCEPT ![c] = "respond"]
                /\ UNCHANGED resp
    /\ UNCHANGED <<links, fts, clock, issued, writer, page, shots, forTesting, browserContext>>

\* The server answers: a redirect, which the client follows with a new
\* request, or the final response, handled as Fetch handles it.
Respond(c, outcome, location) ==
    /\ pc[c] = "respond"
    /\ IF outcome = "302" /\ loc[c].hops < MaxRedirects
            /\ ~location.err /\ location.scheme \in {"http", "https"}
       THEN /\ pc' = [pc EXCEPT ![c] = "fetch"]
            /\ loc' = [loc EXCEPT ![c] =
                          [url |-> loc[c].url, target |-> location,
                           hops |-> loc[c].hops + 1]]
            /\ UNCHANGED resp
       ELSE IF outcome # "200" \/ Site(loc[c].target.host).title = <<>>
       THEN /\ resp' = Reply(c, loc[c].url, Msg.FailedToLoad, <<StatusBadRequest>>, None)
            /\ Finish(c)
       ELSE /\ pc' = [pc EXCEPT ![c] = "store"]
            /\ loc' = [loc EXCEPT ![c] =
                          [url |-> loc[c].url,
                           title |-> Site(loc[c].target.host).title,
                           description |-> Site(loc[c].target.host).description,
                           body |-> Site(loc[c].target.host).body,
                           screenshot |-> NoScreenshot]]
            /\ UNCHANGED resp
    /\ UNCHANGED <<links, fts, clock, issued, writer, page, shots, forTesting, browserContext>>

\* newHandlers: forTesting as its caller passes it (NewHandlers passes
\* false, the tests true); no browser.
InitFetch ==
    /\ links = <<>>
    /\ fts = <<>>
    /\ clock = 0
    /\ issued = {}
    /\ resp = Response(None, None, None, None)
    /\ pc = [c \in Clients |-> "idle"]
    /\ loc = [c \in Clients |-> <<>>]
    /\ writer = None
    /\ page = NoPage
    /\ shots = {}
    /\ forTesting \in BOOLEAN
    /\ browserContext = FALSE

\* The URLs submitted and the Locations servers redirect to
FetchCandidates ==
    {ParsedURL("https", HostA, "/"), ParsedURL("https", IPHost(IPv4(127, 0, 0, 1)), "/"),
     ParsedURL("https", NameHost(localhost), "/"), ParsedURL("ftp", HostA, "/")}

NextFetch ==
    \/ \E u \in FetchCandidates, dns \in DNSOutcomes : AddItemURL(Submitter, u, dns)
    \/ \E dns \in DNSOutcomes : Dial(Submitter, dns)
    \/ \E outcome \in Outcomes \cup {"302"}, location \in FetchCandidates :
            Respond(Submitter, outcome, location)
    \/ \E written \in BOOLEAN : StoreLink(Submitter, written)

SpecFetch == InitFetch /\ [][NextFetch]_vars

-----------------------------------------------------------------------------
(* Extraction of title, description and body.  A text is a sequence of     *)
(* runs [c, n]: the character c, n times; no run is empty and adjacent     *)
(* runs differ in c.  len() and slicing count bytes: a character takes     *)
(* Width(c) bytes in UTF-8.                                                *)

maxBodyLength == 1000000

Run(c, n) == [c |-> c, n |-> n]

\* A byte that is part of a character cut by a slice
BrokenByte == "\\xC3"

Width(c) == IF c = "e-acute" THEN 2 ELSE 1

RECURSIVE Norm(_)
Norm(t) ==
    IF t = <<>> THEN <<>>
    ELSE IF Head(t).n = 0 THEN Norm(Tail(t))
    ELSE IF Len(t) > 1 /\ t[2].n = 0 THEN Norm(<<Head(t)>> \o Tail(Tail(t)))
    ELSE IF Len(t) > 1 /\ t[2].c = Head(t).c
         THEN Norm(<<Run(Head(t).c, Head(t).n + t[2].n)>> \o Tail(Tail(t)))
    ELSE <<Head(t)>> \o Norm(Tail(t))

\* a + b
Cat(a, b) == Norm(a \o b)

RECURSIVE CatAll(_)
CatAll(ts) == IF ts = <<>> THEN <<>> ELSE Cat(Head(ts), CatAll(Tail(ts)))

\* len(t)
RECURSIVE ByteLen(_)
ByteLen(t) == IF t = <<>> THEN 0 ELSE Head(t).n * Width(Head(t).c) + ByteLen(Tail(t))

\* t[:k]
RECURSIVE Slice(_, _)
Slice(t, k) ==
    IF t = <<>> \/ k = 0 THEN <<>>
    ELSE IF Head(t).n * Width(Head(t).c) <= k
         THEN Cat(<<Head(t)>>, Slice(Tail(t), k - Head(t).n * Width(Head(t).c)))
    ELSE Norm(<<Run(Head(t).c, k \div Width(Head(t).c)),
                Run(BrokenByte, k % Width(Head(t).c))>>)

\* strings.TrimSpace
RECURSIVE TrimLeft(_)
TrimLeft(t) == IF t # <<>> /\ Head(t).c = " " THEN TrimLeft(Tail(t)) ELSE t
RECURSIVE TrimRight(_)
TrimRight(t) ==
    IF t # <<>> /\ t[Len(t)].c = " " THEN TrimRight(SubSeq(t, 1, Len(t) - 1)) ELSE t
TrimSpace(t) == TrimRight(TrimLeft(t))

Ellipsis == <<Run(".", 3)>>

\* A string of single characters as a text
RECURSIVE FromChars(_)
FromChars(chars) ==
    IF chars = <<>> THEN <<>> ELSE Cat(<<Run(Head(chars), 1)>>, FromChars(Tail(chars)))

\* The nodes html.Parse builds
Element(name, attr, kids) ==
    [type |-> "element", data |-> name, attr |-> attr, text |-> <<>>, kids |-> kids]
TextNode(t) == [type |-> "text", data |-> "", attr |-> <<>>, text |-> t, kids |-> <<>>]

\* The first entry of a sequence of texts that is not empty, "" when none
RECURSIVE FirstNonEmpty(_)
FirstNonEmpty(ts) ==
    IF ts = <<>> THEN <<>>
    ELSE IF Head(ts) # <<>> THEN Head(ts)
    ELSE FirstNonEmpty(Tail(ts))

RECURSIVE extractTextContent(_)
extractTextContent(n) ==
    CatAll([i \in DOMAIN n.kids |->
               IF n.kids[i].type = "text" THEN n.kids[i].text
               ELSE IF n.kids[i].type = "element" THEN extractTextContent(n.kids[i])
               ELSE <<>>])

RECURSIVE extractTitleFromHtml(_)
extractTitleFromHtml(n) ==
    IF n.type = "element" /\ n.data = "title"
    THEN extractTextContent(n)
    ELSE FirstNonEmpty([i \in DOMAIN n.kids |-> extractTitleFromHtml(n.kids[i])])

extractAttribute(n, key) ==
    IF \E i \in DOMAIN n.attr : n.attr[i].key = key
    THEN n.attr[CHOOSE i \in DOMAIN n.attr :
                    n.attr[i].key = key /\ \A j \in 1..(i - 1) : n.attr[j].key # key].val
    ELSE <<>>

RECURSIVE extractDescriptionFromHtml(_)
extractDescriptionFromHtml(n) ==
    IF /\ n.type = "element" /\ n.data = "meta"
       /\ extractAttribute(n, "name") = FromChars(<<"d", "e", "s", "c">>)
    THEN extractAttribute(n, "content")
    ELSE FirstNonEmpty([i \in DOMAIN n.kids |-> extractDescriptionFromHtml(n.kids[i])])

\* What an extraction returns
Extracted(title, description, body) ==
    [err |-> None, title |-> title, description |-> description, body |-> body]
ErrNoTitle == "no title found in HTML"
ExtractError(err) == [err |-> err, title |-> <<>>, description |-> <<>>, body |-> <<>>]

\* bytes.Index(responseBody, "<body>"), on the tokens of the response
BodyIndex(raw) ==
    IF \E i \in DOMAIN raw : raw[i] = "<body>"
    THEN (CHOOSE i \in DOMAIN raw : raw[i] = "<body>" /\ \A j \in 1..(i - 1) : raw[j] # "<body>") - 1
    ELSE -1

TruncatedTitle(title) ==
    IF ByteLen(title) > maxTitleLength THEN Cat(Slice(title, maxTitleLength), Ellipsis)
    ELSE title

TruncatedDescription(description) ==
    IF ByteLen(description) > maxDescriptionLength
    THEN Cat(Slice(description, maxDescriptionLength), Ellipsis)
    ELSE description

\* extractTitleAndDescriptionAndBodyFromHtml; doc is html.Parse(raw)
extractTitleAndDescriptionAndBodyFromHtml(raw, doc) ==
    IF TrimSpace(extractTitleFromHtml(doc)) = <<>>
    THEN ExtractError(ErrNoTitle)
    ELSE Extracted(TruncatedTitle(TrimSpace(extractTitleFromHtml(doc))),
                   TruncatedDescription(TrimSpace(extractDescriptionFromHtml(doc))),
                   IF BodyIndex(raw) > 0
                   THEN SubSeq(raw, BodyIndex(raw) + 1, Len(raw))
                   ELSE raw)

\* extractTitleFromURL: the last segment of the path, the host when the
\* path has none.
extractTitleFromURL(url) ==
    IF url.path # <<>> /\ url.path[Len(url.path)] # <<Run(".", 1)>>
    THEN url.path[Len(url.path)]
    ELSE url.host

PDFText == <<Run("P", 1), Run("D", 1), Run("F", 1)>>

\* The row's words written one after the other, trimmed
RowText(row) == TrimSpace(CatAll(row))

\* for _, row := range rows: title, description, and whether the loop
\* left through break pages
RECURSIVE ScanRows(_, _, _)
ScanRows(rows, title, description) ==
    IF rows = <<>> THEN [title |-> title, description |-> description, brk |-> FALSE]
    ELSE IF RowText(Head(rows)) = <<>> THEN ScanRows(Tail(rows), title, description)
    ELSE IF title = <<>> THEN ScanRows(Tail(rows), RowText(Head(rows)), description)
    ELSE IF description = <<>> THEN ScanRows(Tail(rows), title, RowText(Head(rows)))
    ELSE [title |-> title, description |-> description, brk |-> TRUE]

\* for pageIndex := 1; pageIndex <= totalPage; pageIndex++
RECURSIVE ScanPages(_, _, _)
ScanPages(pages, title, description) ==
    IF pages = <<>> THEN [title |-> title, description |-> description]
    ELSE IF Head(pages).null THEN ScanPages(Tail(pages), title, description)
    ELSE IF ScanRows(Head(pages).rows, title, description).brk
         THEN [title |-> ScanRows(Head(pages).rows, title, description).title,
               description |-> ScanRows(Head(pages).rows, title, description).description]
    ELSE ScanPages(Tail(pages),
                   ScanRows(Head(pages).rows, title, description).title,
                   ScanRows(Head(pages).rows, title, description).description)

\* extractTitleAndDescriptionAndBodyFromPdf; r is what pdf.NewReader makes
\* of the response: whether it opens, whether its plain text can be read,
\* its plain text and its pages
PdfFailsClosed(url, r) ==
    IF ~r.opens \/ ~r.plain THEN ExtractError("failed to read PDF")
    ELSE Extracted(ScanPages(r.pages, <<>>, <<>>).title,
                   ScanPages(r.pages, <<>>, <<>>).description,
                   Slice(r.text, maxBodyLength))
PdfFirstRowOnly(url, r) ==
    IF ~r.opens \/ ~r.plain THEN Extracted(extractTitleFromURL(url), PDFText, <<>>)
    ELSE Extracted(ScanPages(r.pages, <<>>, <<>>).title,
                   ScanPages(r.pages, <<>>, <<>>).title,
                   Slice(r.text, maxBodyLength))
extractTitleAndDescriptionAndBodyFromPdf(url, r) ==
    IF ~r.opens \/ ~r.plain THEN Extracted(extractTitleFromURL(url), PDFText, <<>>)
    ELSE Extracted(ScanPages(r.pages, <<>>, <<>>).title,
                   ScanPages(r.pages, <<>>, <<>>).description,
                   Slice(r.text, maxBodyLength))

textHtml == <<"t", "e", "x", "t", "/", "h", "t", "m", "l">>
applicationXhtml ==
    <<"a", "p", "p", "l", "i", "c", "a", "t", "i", "o", "n", "/",
      "x", "h", "t", "m", "l", "+", "x", "m", "l">>
applicationPdf ==
    <<"a", "p", "p", "l", "i", "c", "a", "t", "i", "o", "n", "/", "p", "d", "f">>

\* extractTitleAndDescriptionAndBodyFromURL from the Content-Type on, for a
\* response with status 200
ExtractByContentType(in) ==
    IF \/ HasPrefix(ToLower(in.contentType), textHtml)
       \/ HasPrefix(ToLower(in.contentType), applicationXhtml)
    THEN extractTitleAndDescriptionAndBodyFromHtml(in.raw, in.doc)
    ELSE IF ToLower(in.contentType) = applicationPdf
    THEN extractTitleAndDescriptionAndBodyFromPdf(in.url, in.pdf)
    ELSE Extracted(extractTitleFromURL(in.url), FromChars(in.contentType), <<>>)

\* extractTitleAndDescriptionAndBodyAndScreenshotFromURL after the capture:
\* the checks of what the browser gave
BrowserResult(title, description, body) ==
    IF title = <<>> THEN ExtractError(ErrNoTitle)
    ELSE Extracted(IF ByteLen(title) > maxTitleLength
                   THEN Cat(Cat(Slice(title, maxTitleLength), Ellipsis), Ellipsis)
                   ELSE title,
                   TruncatedDescription(description),
                   Slice(body, maxBodyLength))

(* The responses and pages extraction is applied to *)

MaxOver == 1        \* lengths up to MaxOver below and above a limit
MaxPages == 2       \* pages of a PDF

T(c) == <<Run(c, 1)>>

TitleTexts ==
    {<<>>, T("a"), <<Run(" ", 2)>>,
     <<Run(" ", 1), Run("a", maxTitleLength), Run(" ", 2)>>,
     <<Run("a", maxTitleLength), Run(".", 1)>>,
     <<Run("e-acute", maxTitleLength)>>}
        \cup {<<Run("a", n)>> :
                 n \in (maxTitleLength - MaxOver)..(maxTitleLength + MaxOver)}

DescriptionTexts ==
    {<<>>, <<Run(" ", 1), Run("d", 1)>>}
        \cup {<<Run("d", n)>> : n \in {maxDescriptionLength, maxDescriptionLength + MaxOver}}

BodyTexts == {T("b"), <<Run("b", maxBodyLength + MaxOver)>>}

\* The documents: the title elements of the head, the meta description
\* (none when empty), the title elements inside an svg of the body.
HtmlDocs ==
    LET TitleElement(t) ==
            Element("title", <<>>, IF t = <<>> THEN <<>> ELSE <<TextNode(t)>>)
        MetaDescription(d) ==
            Element("meta",
                    <<[key |-> "name", val |-> FromChars(<<"d", "e", "s", "c">>)],
                      [key |-> "content", val |-> d]>>,
                    <<>>)
        HtmlDoc(headTitles, d, svgTitles) ==
            Element("html", <<>>,
                <<Element("head", <<>>,
                      [i \in DOMAIN headTitles |-> TitleElement(headTitles[i])]
                          \o (IF d = <<>> THEN <<>> ELSE <<MetaDescription(d)>>)),
                  Element("body", <<>>,
                      <<Element("svg", <<>>,
                            [i \in DOMAIN svgTitles |-> TitleElement(svgTitles[i])]),
                        TextNode(T("x"))>>)>>)
    IN  {HtmlDoc(h, d, s) :
            h \in {<<>>} \cup {<<t>> : t \in TitleTexts},
            d \in DescriptionTexts,
            s \in {<<>>, <<T("i")>>}}

\* The bytes of a response, as tokens
RawPages ==
    {<<"<head>", "<body>", "delta">>, <<"<body>", "delta">>,
     <<"<head>", "<body class>", "delta">>, <<"<head>", "delta">>}

NoDoc == Element("html", <<>>, <<>>)
NoPdf == [opens |-> FALSE, plain |-> FALSE, text |-> <<>>, pages |-> <<>>]

\* What pdf.NewReader gives: no reader, a reader without plain text, or a
\* reader with its plain text and its pages (a null page, or its rows).
PdfReaders ==
    LET PageSet ==
            {[null |-> TRUE, rows |-> <<>>],
             [null |-> FALSE, rows |-> <<>>],
             [null |-> FALSE, rows |-> <<<<T(" ")>>, <<T("A")>>>>],
             [null |-> FALSE,
              rows |-> <<<<T("A")>>, <<T(" "), T("B"), T(" ")>>, <<T("C"), T("c")>>>>],
             [null |-> FALSE, rows |-> <<<<T(" "), T("B"), T(" ")>>>>],
             [null |-> FALSE, rows |-> <<<<T("C"), T("c")>>, <<>>>>],
             [null |-> FALSE,
              rows |-> <<<<<<Run("A", maxTitleLength + 3 + MaxOver)>>>>,
                         <<<<Run("B", maxDescriptionLength + 3 + MaxOver)>>>>>>]}
    IN  {NoPdf, [opens |-> TRUE, plain |-> FALSE, text |-> <<>>, pages |-> <<>>]}
            \cup {[opens |-> TRUE, plain |-> TRUE, text |-> t, pages |-> p] :
                     t \in BodyTexts,
                     p \in UNION {[1..k -> PageSet] : k \in 0..MaxPages}}

\* A response with status 200 (its URL, Content-Type, bytes, parsed document
\* or PDF reader), or what the browser read from a page.
ExtractInputs ==
    LET ExtractURLs ==
            {[host |-> T("h"), path |-> <<>>],
             [host |-> T("h"), path |-> <<T("d"), T("f")>>],
             [host |-> T("h"), path |-> <<T(".")>>]}
        HtmlTypes ==
            {textHtml \o <<";", " ", "c", "h", "a", "r", "s", "e", "t", "=", "u">>,
             <<"A", "p", "p", "l", "i", "c", "a", "t", "i", "o", "n", "/",
               "X", "H", "T", "M", "L", "+", "x", "m", "l">>}
        PdfTypes ==
            {applicationPdf,
             <<"A", "P", "P", "L", "I", "C", "A", "T", "I", "O", "N", "/", "P", "D", "F">>}
        OtherTypes ==
            {<<>>, <<"i", "m", "a", "g", "e", "/", "p", "n", "g">>,
             applicationPdf \o <<";", "x">>}
        Fetched(url, contentType, raw, doc, pdf) ==
            [kind |-> "fetch", url |-> url, contentType |-> contentType, raw |-> raw,
             doc |-> doc, pdf |-> pdf,
             title |-> <<>>, description |-> <<>>, body |-> <<>>]
        Browsed(title, description, body) ==
            [kind |-> "browser", url |-> [host |-> T("h"), path |-> <<>>],
             contentType |-> <<>>, raw |-> <<>>, doc |-> NoDoc, pdf |-> NoPdf,
             title |-> title, description |-> description, body |-> body]
    IN  {Fetched([host |-> T("h"), path |-> <<>>], ct, raw, doc, NoPdf) :
            ct \in HtmlTypes, raw \in RawPages, doc \in HtmlDocs}
        \cup {Fetched(u, ct, <<>>, NoDoc, r) :
            u \in ExtractURLs, ct \in PdfTypes \cup OtherTypes, r \in PdfReaders}
        \cup {Browsed(t, d, b) :
            t \in TitleTexts, d \in DescriptionTexts, b \in BodyTexts}

\* The result of the extraction for what was fetched, or for the title and
\* description read from the browser, each of them trimmed
Extract(c) ==
    /\ pc[c] = "extract"
    /\ resp' = Response("extract", loc[c],
                        (IF loc[c].kind = "browser"
                         THEN BrowserResult(TrimSpace(loc[c].title), TrimSpace(loc[c].description),
                                            loc[c].body)
                         ELSE ExtractByContentType(loc[c])).err,
                        IF loc[c].kind = "browser"
                        THEN BrowserResult(TrimSpace(loc[c].title), TrimSpace(loc[c].description),
                                            loc[c].body)
                        ELSE ExtractByContentType(loc[c]))
    /\ pc' = [pc EXCEPT ![c] = "idle"]
    /\ loc' = [loc EXCEPT ![c] = <<>>]
    /\ UNCHANGED <<links, fts, clock, issued, writer, page, shots, forTesting, browserContext>>

InitExtract ==
    /\ links = <<>>
    /\ fts = <<>>
    /\ clock = 0
    /\ issued = {}
    /\ resp = Response(None, None, None, None)
    /\ pc = [c \in Clients |-> IF c = Submitter THEN "extract" ELSE "idle"]
    /\ \E in \in ExtractInputs : loc = [c \in Clients |-> IF c = Submitter THEN in ELSE <<>>]
    /\ writer = None
    /\ page = NoPage
    /\ shots = {}
    /\ forTesting = FALSE
    /\ browserContext \in BOOLEAN

NextExtract == Extract(Submitter)

SpecExtract == InitExtract /\ [][NextExtract]_vars

-----------------------------------------------------------------------------
(* Claims about the store *)

UrlStored(u) == \E i \in DOMAIN links : links[i].url = u

\* C1: once add(u, ...) has succeeded and the record is still stored, a
\* later add(u, ...) with any title, description and body returns
\* ErrDuplicate, writes no row and no index entry, and leaves the stored
\* record and its index entry as they were.
C1_DuplicateAddRejected ==
    [][\A u \in StoreURLs, doc \in Documents :
          (UrlStored(u) /\ AddLink(u, doc.title, doc.description, doc.body))
              => (resp'.err = ErrDuplicate /\ links' = links /\ fts' = fts /\ issued' = issued)]_vars

\* C1 witness: a duplicate add was rejected while the first record is stored.
C1_Witness ==
    /\ resp.op = "add" /\ resp.err = ErrDuplicate
    /\ \E i \in DOMAIN links : links[i].url = resp.arg /\ i \in DOMAIN fts

\* C3: update(id, newTitle, newDescription) on a stored id changes the row
\* get(id) returns and the index together: get(id) returns the new title and
\* description, a term of the new title/description finds the record, a term
\* that occurred only in the old title/description no longer does, and the
\* index entry holds the title and description of the primary row.
C3_UpdateRefreshesIndex ==
    [][\A id \in Ids, t \in Titles, d \in Descriptions :
          (id \in DOMAIN links /\ UpdateLink(id, t, d))
              => /\ GetLink(links', id).Title = t
                 /\ GetLink(links', id).Description = d
                 /\ fts'[id].title = links'[id].title
                 /\ fts'[id].description = links'[id].description
                 /\ \A q \in Range(t) \cup Range(d) :
                        LinkOf(links', id) \in Search(links', fts', q)
                 /\ \A q \in (Range(links[id].title) \cup Range(links[id].description))
                               \ (Range(t) \cup Range(d) \cup Range(fts[id].body)) :
                        LinkOf(links', id) \notin Search(links', fts', q)]_vars

Returned(l, f, id) ==
    \/ \E s \in GetAllLinks(l) : id \in Range(s)
    \/ \E q \in Words : \E r \in Search(l, f, q) : r.ID = id

DeleteRemovesBoth ==
    \A id \in Ids :
        (id \in DOMAIN links /\ DeleteLink(id))
            => /\ resp'.err = OK
               /\ id \notin DOMAIN links' /\ id \notin DOMAIN fts'
               /\ ~Returned(links', fts', id)

Deleted(id) == id \in issued /\ id \notin DOMAIN links

\* C4, as claimed: after delete(id) succeeds the row and the index entry of
\* id are both gone by the one deletion of the row, and no later search or
\* getAll returns that id.
C4_DeletedIdNeverReturned ==
    [][/\ DeleteRemovesBoth
       /\ \A id \in Ids : Deleted(id) => ~Returned(links', fts', id)]_vars

\* C4, amended: after delete(id) succeeds the row and the index entry of id
\* are both gone by the one deletion of the row, and no later search or
\* getAll returns that id until an add is assigned that id again.
C4_DeletedIdGoneUntilReassigned ==
    [][/\ DeleteRemovesBoth
       /\ \A id \in Ids :
            (Deleted(id) /\ ~(resp'.op = "add" /\ resp'.err = OK /\ resp'.val = id /\ links' # links))
                => (id \notin DOMAIN links' /\ id \notin DOMAIN fts' /\ ~Returned(links', fts', id))]_vars

\* C4 witness: a delete succeeded on an id that add had returned, the id is
\* no longer stored, and other records remain.
C4_Witness ==
    /\ resp.op = "delete" /\ resp.err = OK
    /\ resp.arg \notin DOMAIN links /\ resp.arg \in issued
    /\ DOMAIN links # {}

AddSucceeds ==
    \E u \in StoreURLs, doc \in Documents :
        AddLink(u, doc.title, doc.description, doc.body) /\ resp'.err = OK

\* C9, as claimed: every successful add returns an id greater than every id
\* an earlier add returned, so no id is assigned twice.
C9_IdsNeverReused ==
    [][AddSucceeds => \A i \in issued : resp'.val > i]_vars

\* C9, amended: every successful add returns an id greater than the id of
\* every record stored at that moment, so the ids of the stored records are
\* unique and increase in order of insertion.
C9_IdAboveStoredIds ==
    [][AddSucceeds =>
          /\ resp'.val \notin DOMAIN links
          /\ \A i \in DOMAIN links : resp'.val > i
          /\ DOMAIN links' = DOMAIN links \cup {resp'.val}]_vars

\* C9 witness: an add succeeded after a record with a greater id than an
\* older stored one had been deleted.
C9_Witness ==
    /\ resp.op = "add" /\ resp.err = OK
    /\ Cardinality(DOMAIN links) >= 2
    /\ \E i \in issued : i \notin DOMAIN links

EachOnce(s, S) == Range(s) = S /\ Len(s) = Cardinality(S)

\* C10, as claimed: getAll returns every stored record exactly once, a
\* record inserted later before one inserted earlier, also when both were
\* inserted within one clock second.  (Among stored records the one inserted
\* later has the greater id.)
C10_NewestFirstAlways ==
    \A s \in GetAllLinks(links) :
        /\ EachOnce(s, DOMAIN links)
        /\ \A i, j \in DOMAIN s : i < j => s[i] > s[j]

\* C10, amended: getAll returns every stored record exactly once, ordered
\* by added_at descending: of two records inserted in different clock
\* seconds the later one comes first.
C10_NewestFirstAcrossSeconds ==
    \A s \in GetAllLinks(links) :
        /\ EachOnce(s, DOMAIN links)
        /\ \A i, j \in DOMAIN s :
              (i < j /\ links[s[i]].added_at # links[s[j]].added_at) => s[i] > s[j]

\* C10 witness: two records inserted in different clock seconds are stored.
C10_Witness ==
    \E i, j \in DOMAIN links : links[i].added_at < links[j].added_at

\* C2: in every state a reader can observe, under any interleaving of add,
\* update and delete, an index entry exists for an id if and only if a
\* primary row with that id exists.
C2_IndexIffRow == DOMAIN fts = DOMAIN links

\* C2 witness: a record was deleted, another is stored with its index entry,
\* and a third client's transaction has inserted but not yet committed.
C2_Witness ==
    /\ \E i \in issued : i \notin DOMAIN links
    /\ \E i \in DOMAIN links : i \in DOMAIN fts
    /\ \E c \in Clients : pc[c] = "commit"

\* An update or a delete addressed to id
Addressed(id) ==
    \/ DeleteLink(id)
    \/ \E t \in Titles, d \in Descriptions : UpdateLink(id, t, d)

\* C11: after add(u, t, d, b) returns id, get(id) returns id, u, t, d and
\* the time of the insert; get(id) returns the same values after every step
\* that is not an update or a delete addressed to id.
C11_GetReturnsWhatWasAdded ==
    [][/\ \A u \in StoreURLs, doc \in Documents :
            (AddLink(u, doc.title, doc.description, doc.body) /\ resp'.err = OK)
                => GetLink(links', resp'.val) =
                       [ID |-> resp'.val, URL |-> u, Title |-> doc.title,
                        Description |-> doc.description, AddedAt |-> CurrentTimestamp]
       /\ \A id \in DOMAIN links :
            ~Addressed(id) => GetLink(links', id) = GetLink(links, id)]_vars

\* C11 witness: a record added in an earlier second is stored next to a
\* record with another title that has just been updated.
C11_Witness ==
    /\ resp.op = "update" /\ resp.err = OK
    /\ \E j \in DOMAIN links :
          /\ j # resp.arg
          /\ links[j].title # resp.val[1]
          /\ links[j].added_at < CurrentTimestamp

\* C12: get, update and delete addressed to an id without a record return
\* ErrNotFound, which is neither success nor ErrDuplicate, and leave every
\* row and every index entry as it was.
C12_MissingIdIsNotFound ==
    [][\A id \in Ids \ DOMAIN links :
          /\ GetLink(links, id) = ErrNotFound
          /\ ErrNotFound \notin {OK, ErrDuplicate, None}
          /\ DeleteLink(id) => (resp'.err = ErrNotFound /\ links' = links /\ fts' = fts)
          /\ \A t \in Titles, d \in Descriptions :
                UpdateLink(id, t, d) => (resp'.err = ErrNotFound /\ links' = links /\ fts' = fts)]_vars

\* C12 witness: a delete addressed to an id that was never assigned was
\* answered ErrNotFound while records are stored.
C12_Witness ==
    /\ resp.op = "delete" /\ resp.err = ErrNotFound
    /\ resp.arg \notin issued
    /\ DOMAIN links # {} /\ DOMAIN fts = DOMAIN links

\* C13: a successful update of id leaves the url and added_at of the row,
\* the body of its index entry, every other row and every other index entry
\* as they were, and every token of the body still finds the record.
C13_UpdateFrame ==
    [][\A id \in DOMAIN links, t \in Titles, d \in Descriptions :
          UpdateLink(id, t, d)
              => /\ resp'.err = OK
                 /\ DOMAIN links' = DOMAIN links /\ DOMAIN fts' = DOMAIN fts
                 /\ links'[id].url = links[id].url
                 /\ links'[id].added_at = links[id].added_at
                 /\ fts'[id].body = fts[id].body
                 /\ \A j \in DOMAIN links \ {id} : links'[j] = links[j] /\ fts'[j] = fts[j]
                 /\ \A q \in Range(fts[id].body) :
                        \E r \in Search(links', fts', q) : r.ID = id]_vars

\* C13 witness: the record just updated has a token that occurs in its body
\* only, its title has changed, and another record is stored.
C13_Witness ==
    /\ resp.op = "update" /\ resp.err = OK
    /\ resp.arg \in DOMAIN links
    /\ links[resp.arg].title # fts[resp.arg].title
    /\ Range(fts[resp.arg].body) \ (Range(links[resp.arg].title) \cup Range(links[resp.arg].description)) # {}
    /\ Cardinality(DOMAIN links) >= 2

\* C14: search(q) for one token returns exactly the stored records whose
\* title, description or body holds q, each as the fields of its primary
\* row.
C14_SearchFindsExactly ==
    \A q \in Words :
        Search(links, fts, q) =
            {LinkOf(links, i) : i \in {j \in DOMAIN links :
                 q \in Range(links[j].title) \cup Range(links[j].description)
                          \cup Range(fts[j].body)}}

-----------------------------------------------------------------------------
(* Claims about submissions *)

BrowserSteps == {"title", "description", "body", "screenshot"}

\* C5: at most one submission is between its navigation and its screenshot
\* capture on the shared browser session, so no browser call of one
\* submission falls between the navigation and the capture of another.
C5_BrowserSequenceSerialized ==
    Cardinality({c \in Clients : pc[c] \in BrowserSteps}) <= 1

\* net.IP.IsLinkLocalUnicast: 169.254/16, fe80::/10
IsLinkLocalUnicast(ip) ==
    IF To4(ip) # NoIP
    THEN To4(ip)[1] = 169 /\ To4(ip)[2] = 254
    ELSE Len(ip) = 16 /\ ip[1] = 254 /\ ip[2] \in 128..191

\* The hosts C6 names: loopback, link-local, private and unspecified IP
\* literals, localhost in any letter case and its subdomains.
UnsafeLiteral(host) ==
    IF host.kind = "ip"
    THEN \/ IsLoopback(host.ip) \/ IsLinkLocalUnicast(host.ip)
         \/ IsPrivate(host.ip) \/ IsUnspecified(host.ip)
    ELSE ToLower(host.name) = localhost \/ HasSuffix(ToLower(host.name), dotLocalhost)

\* The handler answered Bad Request at the guard: no fetch, no navigation,
\* nothing stored.
RejectedAtGuard(u) ==
    /\ resp' = Reply(Submitter, u, Msg.InvalidURL, <<StatusBadRequest>>, None)
    /\ pc'[Submitter] = "idle"
    /\ UNCHANGED <<links, fts, issued, shots, page>>

UnsafeLiterals ==
    UNION {IF ~s[1].err /\ UnsafeLiteral(s[1].host) THEN {s} ELSE {}
              : s \in Candidates \X DNSOutcomes}

\* C6: a URL submission whose host is a loopback, link-local, private or
\* unspecified IP literal, or localhost (any case, or a subdomain), is
\* rejected by the guard before any fetch: no retrieval, no navigation,
\* nothing stored.
C6_UnsafeLiteralRejected ==
    [][\A s \in UnsafeLiterals :
          AddItemURL(Submitter, s[1], s[2]) => RejectedAtGuard(s[1])]_vars

NeedsResolution(host) ==
    /\ host.kind = "name" /\ host.name # <<>>
    /\ ~HasPrefix(ToLower(host.name), localhost)
    /\ ~HasSuffix(ToLower(host.name), dotLocalhost)

UnsafeAnswer(dns) ==
    dns.err \/ \E ip \in dns.ips : IsLoopback(ip) \/ IsPrivate(ip) \/ IsUnspecified(ip)

UnsafeResolutions ==
    UNION {IF ~s[1].err /\ NeedsResolution(s[1].host) /\ UnsafeAnswer(s[2]) THEN {s} ELSE {}
              : s \in Candidates \X DNSOutcomes}

\* C7: for a host that is a name, not an IP literal and not a local name,
\* the guard rejects the submission when one of the resolved addresses is
\* loopback, private or unspecified, and when the resolution fails or times
\* out; then no fetch is issued and nothing is stored.
C7_UnsafeResolutionRejected ==
    [][\A s \in UnsafeResolutions :
          AddItemURL(Submitter, s[1], s[2]) => RejectedAtGuard(s[1])]_vars

\* C7 witness: an https submission for a name that needs resolution was
\* answered Bad Request by AddItem itself (only its resolution can have
\* rejected it) while a link is stored.
C7_Witness ==
    /\ resp.op = "AddItem"
    /\ resp.arg[2].scheme = "https" /\ NeedsResolution(resp.arg[2].host)
    /\ resp.arg[3] = Msg.InvalidURL
    /\ resp.val = <<StatusBadRequest>> /\ resp.err = None
    /\ pc[Submitter] = "idle"
    /\ DOMAIN links # {}

\* C8: whenever the store rejects a submission because its url exists, the
\* caller gets the conflict reply, never the internal-error reply, on the
\* URL path and on the note path.
C8_DuplicateIsConflict ==
    resp.err = ErrDuplicate => resp.val = <<StatusConflict>>

\* The fetch of a submission ends in an error: on the plain path the GET
\* fails, answers another status than 200 or a document with an empty title;
\* with a browser the navigation fails or answers an error status, the
\* capture fails or the title is empty.
FetchError ==
    \/ \E outcome \in Outcomes :
          /\ Fetch(Submitter, outcome)
          /\ outcome # "200" \/ Site(loc[Submitter].url.host).title = <<>>
    \/ \E outcome \in Outcomes : Navigate(Submitter, outcome) /\ outcome # "200"
    \/ \E captured \in BOOLEAN :
          /\ BrowserScreenshot(Submitter, captured)
          /\ ~captured \/ loc[Submitter].title = <<>>

\* C16: when a URL submission ends in a fetch error the caller gets the
\* 'failed to load URL' reply, the handler returns without fetching again,
\* and no row, no index entry and no screenshot file is written.
C16_FetchErrorStoresNothing ==
    [][FetchError =>
          /\ resp' = Reply(Submitter, loc[Submitter].url, Msg.FailedToLoad,
                           <<StatusBadRequest>>, None)
          /\ pc'[Submitter] = "idle"
          /\ UNCHANGED <<links, fts, issued, shots>>]_vars

\* C16 witness: a plain fetch of a storable page failed while another link
\* is stored; the page's own url is not stored.
C16_Witness ==
    /\ resp.op = "AddItem" /\ resp.arg[3] = Msg.FailedToLoad
    /\ ~browserContext
    /\ Site(resp.arg[2].host).title # <<>>
    /\ DOMAIN links # {}
    /\ \A i \in DOMAIN links : links[i].url # URLString(resp.arg[2])
    /\ pc[Submitter] = "idle"

ValidationMessages ==
    {Msg.InvalidURL, Msg.NoteTitleRequired, Msg.NoteTitleTooLong, Msg.NoteTextRequired,
     Msg.NoteTextTooLong, Msg.TitleRequired, Msg.TitleTooLong, Msg.DescriptionTooLong}

\* C17: a request rejected with a validation error (bad or unsafe URL, bad
\* note fields, bad edit fields) leaves every row, every index entry and the
\* screenshot directory as they were and starts no retrieval.
C17_ValidationErrorNoEffect ==
    [][(resp' # resp /\ resp'.arg[3] \in ValidationMessages)
          => /\ resp'.val = <<StatusBadRequest>> /\ resp'.err = None
             /\ pc[Submitter] = "idle" /\ pc'[Submitter] = "idle"
             /\ UNCHANGED <<links, fts, issued, shots, page>>]_vars

\* C17 witness: an edit of a stored link with an oversized description was
\* rejected.
C17_Witness ==
    /\ resp.op = "EditLink" /\ resp.arg[3] = Msg.DescriptionTooLong
    /\ resp.arg[2].id \in DOMAIN links
    /\ links[resp.arg[2].id].title # <<"alpha">>

-----------------------------------------------------------------------------
(* Claims about extraction *)

Hypertext(contentType) ==
    \/ HasPrefix(ToLower(contentType), textHtml)
    \/ HasPrefix(ToLower(contentType), applicationXhtml)

OnHtmlPath == resp.op = "extract" /\ resp.arg.kind = "fetch" /\ Hypertext(resp.arg.contentType)
OnBrowserPath == resp.op = "extract" /\ resp.arg.kind = "browser"
OnPdfPath ==
    /\ resp.op = "extract" /\ resp.arg.kind = "fetch"
    /\ ToLower(resp.arg.contentType) = applicationPdf

\* The number of characters of a text, and its first k characters
RECURSIVE CharCount(_)
CharCount(t) == IF t = <<>> THEN 0 ELSE Head(t).n + CharCount(Tail(t))
RECURSIVE FirstChars(_, _)
FirstChars(t, k) ==
    IF t = <<>> \/ k = 0 THEN <<>>
    ELSE IF Head(t).n <= k THEN <<Head(t)>> \o FirstChars(Tail(t), k - Head(t).n)
    ELSE <<Run(Head(t).c, k)>>

\* C15: on the hypertext path and on the browser path, an extracted
\* (trimmed) title of exactly 250 characters is the title returned, and one
\* of 251 or more characters is returned as its first 250 characters
\* followed by one "...".
C15_TitleCutOnce ==
    (OnHtmlPath \/ OnBrowserPath) =>
        LET t == IF resp.arg.kind = "browser" THEN TrimSpace(resp.arg.title)
                 ELSE TrimSpace(extractTitleFromHtml(resp.arg.doc))
        IN /\ CharCount(t) = maxTitleLength
                => (resp.err = None /\ resp.val.title = t)
           /\ CharCount(t) > maxTitleLength
                => (resp.err = None
                    /\ resp.val.title = Cat(FirstChars(t, maxTitleLength), Ellipsis))

\* C18: a response with status 200 whose content type is not hypertext (a
\* PDF, also one that cannot be opened or read, or any other type) yields
\* title, description and body, never an error.
C18_OnlyHypertextFails ==
    (resp.op = "extract" /\ resp.arg.kind = "fetch" /\ ~Hypertext(resp.arg.contentType))
        => (resp.err = None /\ resp.val.err = None)

\* C18 witness: a PDF that cannot be opened was given the title of its url.
C18_Witness ==
    /\ OnPdfPath /\ ~resp.arg.pdf.opens
    /\ resp.err = None
    /\ resp.arg.url.path # <<>>
    /\ resp.val.title = resp.arg.url.path[Len(resp.arg.url.path)]
    /\ resp.val.description = PDFText

RECURSIVE Flatten(_)
Flatten(seqs) == IF seqs = <<>> THEN <<>> ELSE Head(seqs) \o Flatten(Tail(seqs))

\* The text contents of the title elements of a document, in document order
RECURSIVE TitlesInOrder(_)
TitlesInOrder(n) ==
    IF n.type = "element" /\ n.data = "title" THEN <<extractTextContent(n)>>
    ELSE Flatten([i \in DOMAIN n.kids |-> TitlesInOrder(n.kids[i])])

\* C19: on the hypertext path the title is the trimmed text of the first
\* title element in document order; when there is no title element or the
\* first one's trimmed text is empty, extraction fails (a later title
\* element is not used).
C19_FirstTitleElement ==
    OnHtmlPath =>
        LET ts == TitlesInOrder(resp.arg.doc)
        IN IF ts = <<>> \/ TrimSpace(ts[1]) = <<>>
           THEN resp.err = ErrNoTitle
           ELSE /\ resp.err = None
                /\ ByteLen(TrimSpace(ts[1])) <= maxTitleLength
                      => resp.val.title = TrimSpace(ts[1])

\* The trimmed texts of the rows of all pages, in page order and row order,
\* the empty ones left out
RECURSIVE NonEmptyTexts(_)
NonEmptyTexts(rows) ==
    IF rows = <<>> THEN <<>>
    ELSE (IF RowText(Head(rows)) = <<>> THEN <<>> ELSE <<RowText(Head(rows))>>)
             \o NonEmptyTexts(Tail(rows))
NonEmptyRows(pages) == NonEmptyTexts(Flatten([i \in DOMAIN pages |-> pages[i].rows]))

\* C20: on the PDF path, when the document opens and its text is read, the
\* title is the first non-empty trimmed row in page order and row order,
\* the description the second (later rows change nothing), and the body is
\* the plain text cut at maxBodyLength.
C20_PdfRows ==
    (OnPdfPath /\ resp.arg.pdf.opens /\ resp.arg.pdf.plain) =>
        LET rows == NonEmptyRows(resp.arg.pdf.pages)
        IN /\ resp.err = None
           /\ resp.val.title = (IF Len(rows) >= 1 THEN rows[1] ELSE <<>>)
           /\ resp.val.description = (IF Len(rows) >= 2 THEN rows[2] ELSE <<>>)
           /\ resp.val.body = Slice(resp.arg.pdf.text, maxBodyLength)
           /\ ByteLen(resp.val.body) <= maxBodyLength

\* C20 witness: a PDF whose first page has one non-empty row and whose
\* second page has more, with a text longer than the cap.
C20_Witness ==
    /\ OnPdfPath /\ resp.arg.pdf.opens /\ resp.arg.pdf.plain
    /\ Len(resp.arg.pdf.pages) = 2
    /\ Len(NonEmptyRows(<<resp.arg.pdf.pages[1]>>)) = 1
    /\ Len(NonEmptyRows(resp.arg.pdf.pages)) >= 3
    /\ ByteLen(resp.arg.pdf.text) > maxBodyLength
    /\ resp.val.description # <<>>

-----------------------------------------------------------------------------
(* Claims about notes *)

\* A note submission whose title and text pass AddItem's checks
ValidNote(t, n) ==
    /\ NoteError(TrimWords(t), TrimWords(n)) = NoMsg
    /\ resp'.op = "AddItem" /\ resp'.arg[2] = NoteForm
    /\ AddItemNote(Submitter, t, n)

\* C21: a note submission with a title and a text within the caps stores
\* exactly one record, under a pseudo-url with the prefix note:, whose
\* description and indexed body are the note text; the record is returned
\* by get and by a search for a token of the text, and no guard, fetch or
\* extraction runs for it.
C21_NoteStored ==
    [][\A t \in NoteTitles, n \in NoteTexts :
          ValidNote(t, n) =>
              \E id \in Ids :
                  /\ id \notin DOMAIN links
                  /\ DOMAIN links' = DOMAIN links \cup {id}
                  /\ DOMAIN fts' = DOMAIN fts \cup {id}
                  /\ \A i \in DOMAIN links : links'[i] = links[i]
                  /\ links'[id].url = NoteURL /\ NoteURL[1] = "note"
                  /\ links'[id].title = TrimWords(t)
                  /\ links'[id].description = TrimWords(n)
                  /\ fts'[id].body = TrimWords(n)
                  /\ GetLink(links', id).URL = NoteURL
                  /\ \A w \in Range(TrimWords(n)) :
                         LinkOf(links', id) \in Search(links', fts', w)
                  /\ resp'.val = <<StatusCreated>>
                  /\ pc' = pc /\ page' = page /\ shots' = shots]_vars

\* C25: two note submissions that pass the checks get distinct pseudo-urls,
\* also inside one millisecond of the clock: no valid note submission meets
\* a stored record with its pseudo-url.
C25_NotesNeverCollide ==
    [][\A t \in NoteTitles, n \in NoteTexts :
          ValidNote(t, n) => ~UniqueViolation(links, NoteURL)]_vars

-----------------------------------------------------------------------------
(* Claims about deletion and the stages of a submission *)

\* C22: after the delete of a link whose screenshot was written at its
\* submission succeeds, the file named by the digest of the link's url is
\* no longer in the screenshots directory.
C22_DeleteRemovesScreenshot ==
    [][\A id \in Ids :
          (/\ id \in DOMAIN links
           /\ screenshotFilename(links[id].url) \in shots
           /\ resp'.op = "DeleteLink"
           /\ DeleteLinkRequest(Submitter, [ok |-> TRUE, id |-> id]))
              => screenshotFilename(links[id].url) \notin shots']_vars

\* The order of the stages of a URL submission, as positions of its request
StageOrder ==
    {<<"idle", "fetch">>, <<"idle", "navigate">>, <<"fetch", "store">>,
     <<"navigate", "title">>, <<"title", "description">>, <<"description", "body">>,
     <<"body", "screenshot">>, <<"screenshot", "store">>,
     <<"fetch", "idle">>, <<"navigate", "idle">>, <<"screenshot", "idle">>,
     <<"store", "idle">>}

\* C23: a URL submission goes through its stages in order, each once, and
\* once a stage has failed no later stage runs: a failure outcome sent to
\* the caller is the only outcome sent, never followed by a success one.
C23_FailureIsTerminal ==
    /\ [][\A c \in Clients : pc'[c] # pc[c] => <<pc[c], pc'[c]>> \in StageOrder]_vars
    /\ []((resp.op = "AddItem" /\ \E i \in DOMAIN resp.val : resp.val[i] >= StatusBadRequest)
             => Len(resp.val) = 1)

-----------------------------------------------------------------------------
(* Claims about concurrent adds *)

\* C24: under any interleaving of concurrent AddLink calls with the same
\* url, in every state at most one row and one index entry hold the url; a
\* call returns an id only when no row holds its url, and a call that
\* returns an error has written nothing.
C24_OneAddPerURL ==
    /\ [](\A u \in StoreURLs :
            /\ Cardinality({i \in DOMAIN links : links[i].url = u}) <= 1
            /\ Cardinality({i \in DOMAIN fts : i \in DOMAIN links /\ links[i].url = u}) <= 1)
    /\ [][\A c \in Clients :
            (pc[c] = "commit" /\ pc'[c] = "idle") =>
                /\ ~UniqueViolation(links, loc[c].url)
                /\ loc[c].id \notin DOMAIN links
                /\ resp'.err = OK /\ resp'.val = loc[c].id]_vars
    /\ [][\A c \in Clients :
            (pc[c] = "insert" /\ pc'[c] = "idle") =>
                /\ resp'.err = ErrDuplicate
                /\ links' = links /\ fts' = fts]_vars

\* C24 witness: a record is stored under a url, a second call with that
\* url was answered with the duplicate error, and a third call with that
\* url has begun.
C24_Witness ==
    /\ resp.op = "add" /\ resp.err = ErrDuplicate
    /\ UniqueViolation(links, resp.arg)
    /\ \E c \in Clients : pc[c] = "insert" /\ loc[c].url = resp.arg

-----------------------------------------------------------------------------
(* Claims about what reaches the store *)

\* C26: in every state, after any URL submissions, note submissions and
\* edits, the title of every stored link is non-empty after trimming.
C26_TitleNeverBlank ==
    \A id \in DOMAIN links : TrimWords(links[id].title) # <<>>

\* C27: whatever path the title, description and body come from, the title
\* has at most 250 characters and the suffix "...", the description at most
\* 1020 characters and the suffix "...", the body at most 1000000 bytes.
\* (On the hypertext path the body is a suffix of the bytes that came
\* through the LimitReader of maxBodyLength; its length is not measured.)
C27_CapsRespected ==
    (resp.op = "extract" /\ resp.err = None) =>
        /\ CharCount(resp.val.title) <= maxTitleLength + CharCount(Ellipsis)
        /\ CharCount(resp.val.description) <= maxDescriptionLength + CharCount(Ellipsis)
        /\ ~OnHtmlPath => ByteLen(resp.val.body) <= maxBodyLength

-----------------------------------------------------------------------------
(* Claims about the retrieval and the guard's test mode *)

\* An address the guard is there to keep the client away from
UnsafeAddress(ip) == IsLoopback(ip) \/ IsPrivate(ip) \/ IsUnspecified(ip)

\* C28: no request made for a URL submission goes to a loopback, private
\* or unspecified address: not the first request and not a request made
\* while following redirects from a URL that passed the guard.
C28_NoUnsafeConnection ==
    \A c \in Clients :
        (~forTesting /\ pc[c] = "respond") => ~UnsafeAddress(loc[c].addr)

\* A host the guard rejects without resolving it: a loopback, private or
\* unspecified IP literal, or a reserved local name
LiteralOrLocal(host) ==
    IF host.kind = "ip" THEN UnsafeAddress(host.ip)
    ELSE \/ host.name = <<>>
         \/ HasPrefix(ToLower(host.name), localhost)
         \/ HasSuffix(ToLower(host.name), dotLocalhost)

\* C29, as claimed: the test flag turns off the resolution step only; with
\* the flag set a loopback, private or unspecified IP literal and a
\* reserved local name are still rejected.
C29_FlagOnlySkipsResolution ==
    [][\A u \in FetchCandidates, dns \in DNSOutcomes :
          (/\ forTesting /\ ~u.err /\ u.scheme \in {"http", "https"}
           /\ LiteralOrLocal(u.host)
           /\ AddItemURL(Submitter, u, dns))
              => (pc'[Submitter] = "idle" /\ RejectedAtGuard(u))]_vars

\* C29, amended: the test flag turns off the whole host check.  With the
\* flag set every submission whose URL parses with the scheme http or https
\* goes on to the retrieval, whatever its host and whatever a lookup would
\* answer; a URL that does not parse or has another scheme is rejected.
C29_FlagDisablesGuard ==
    [][\A u \in FetchCandidates, dns \in DNSOutcomes :
          (forTesting /\ AddItemURL(Submitter, u, dns)) =>
              IF u.err \/ u.scheme \notin {"http", "https"}
              THEN pc'[Submitter] = "idle" /\ RejectedAtGuard(u)
              ELSE pc'[Submitter] = "fetch" /\ loc'[Submitter].url = u]_vars

\* C29 witness: with the flag set a submission for the literal 127.0.0.1
\* passed AddItem and the client has connected to that address.
C29_Witness ==
    /\ forTesting
    /\ pc[Submitter] = "respond"
    /\ loc[Submitter].hops = 0
    /\ loc[Submitter].url.host = IPHost(IPv4(127, 0, 0, 1))
    /\ IsLoopback(loc[Submitter].addr)

-----------------------------------------------------------------------------
(* Claims about the body of a hypertext page *)

\* The start tag of a body element, with or without attributes
BodyTags == {"<body>", "<body class>"}

\* The bytes of a response from the start tag of its first body element
\* on; none when it has no body element
FromFirstBody(raw) ==
    IF \E i \in DOMAIN raw : raw[i] \in BodyTags
    THEN SubSeq(raw,
                CHOOSE i \in DOMAIN raw :
                    raw[i] \in BodyTags /\ \A j \in 1..(i - 1) : raw[j] \notin BodyTags,
                Len(raw))
    ELSE <<>>

\* C30: on the hypertext path the body handed to the store starts at the
\* first body element, whatever attributes its tag carries, holds nothing
\* that precedes that element, and is empty when there is no body element.
C30_BodyFromBodyElement ==
    (OnHtmlPath /\ resp.err = None) => resp.val.body = FromFirstBody(resp.arg.raw)

====
